---- MODULE Spec2Model ----
(***************************************************************************)
(* LoadBalancerManager (SoftLayer/managers/load_balancer.py).              *)
(*                                                                         *)
(* The manager is stateless: every method builds parameters, calls one or  *)
(* two remote operations and returns.  The model keeps the remote load     *)
(* balancer (its virtual-server tree), and for every client the method it  *)
(* is running, the values it fetched, the remote calls it issued and what  *)
(* the method returned or raised.  Methods with two dependent remote calls *)
(* are split at the point between the calls, where another client can act. *)
(***************************************************************************)
EXTENDS Integers, Sequences, FiniteSets, TLC

VARIABLES lb, pc, op, fetched, billing, calls, ret, hist

vars == <<lb, pc, op, fetched, billing, calls, ret, hist>>

\* ---------------------------------------------------------------- bounds
MaxNodes == 6   \* virtual servers + service groups + services on the remote at the start
MaxPkgs == 3    \* catalog items returned by getItems
MaxDCs  == 2    \* datacenters returned by getDataCenters

Clients == {1, 2}

SeqsUpTo(S, n) == UNION {[1..k -> S] : k \in 0..n}

\* ------------------------------------------------------- remote data shapes
NoId == 0       \* a template built locally carries no 'id' key
TheLb == 1
LbIds == {1, 2}
AbsentId == 999

MkService(id, enabled, port, ip, weight, hc) ==
    [id |-> id, enabled |-> enabled, port |-> port, ipAddressId |-> ip,
     groupReferences |-> <<[weight |-> weight]>>,
     healthChecks |-> <<[healthCheckTypeId |-> hc]>>]

MkGroup(id, rtype, rmethod, services) ==
    [id |-> id, routingTypeId |-> rtype, routingMethodId |-> rmethod,
     services |-> services]

MkVS(id, port, allocation, groups) ==
    [id |-> id, port |-> port, allocation |-> allocation,
     serviceGroups |-> groups]

\* A virtual-server shape is the list of the sizes of its service groups; a
\* tree shape is a list of virtual-server shapes.  Shapes are enumerated by
\* their number of nodes (service groups and services, plus virtual servers).
RECURSIVE VSShapes(_)
VSShapes(m) ==
    IF m = 0 THEN {<<>>}
    ELSE UNION {{<<k>> \o rest : rest \in VSShapes(m - 1 - k)} : k \in 0..(m - 1)}

RECURSIVE TreeShapesOfSize(_)
TreeShapesOfSize(n) ==
    IF n = 0 THEN {<<>>}
    ELSE UNION {{<<v>> \o rest : v \in VSShapes(m - 1),
                                 rest \in TreeShapesOfSize(n - m)} : m \in 1..n}

TreeShapes == UNION {TreeShapesOfSize(n) : n \in 0..MaxNodes}

Tree(shape) ==
    [i \in 1..Len(shape) |->
        MkVS(i, 80, 50,
             [j \in 1..Len(shape[i]) |->
                 MkGroup(10 * i + j, 2, 10,
                         [k \in 1..shape[i][j] |->
                             MkService(100 * i + 10 * j + k, 1, 80, 5, 1, 21)])])]

InitTrees == {Tree(s) : s \in TreeShapes}

\* Trees as the remote itself builds them: one service group per virtual server.
RaceTrees == {Tree(s) : s \in {t \in TreeShapes : \A i \in 1..Len(t) : Len(t[i]) = 1}}

Range(f) == {f[i] : i \in DOMAIN f}

ServiceIdsOf(tree) ==
    UNION {UNION {{g.services[k].id : k \in 1..Len(g.services)} :
                    g \in Range(vs.serviceGroups)} : vs \in Range(tree)}

VsIdsOf(tree) == {tree[i].id : i \in 1..Len(tree)}

GroupHasService(g, sid) == \E k \in 1..Len(g.services) : g.services[k].id = sid
VsHasService(vs, sid) ==
    \E j \in 1..Len(vs.serviceGroups) : GroupHasService(vs.serviceGroups[j], sid)
TreeHasService(tree, sid) == \E i \in 1..Len(tree) : VsHasService(tree[i], sid)

\* ------------------------------------------------- the remote's behaviour
\* getVirtualServers with an object filter on a nested service id.  The
\* remote decides what a filter keeps: it may keep the virtual servers that
\* hold a matching service, prune their groups and services as well, or
\* return the relation unfiltered.
FilterVsByService(tree, sid) == SelectSeq(tree, LAMBDA vs : VsHasService(vs, sid))

PruneGroup(g, sid) ==
    [g EXCEPT !.services = SelectSeq(g.services, LAMBDA s : s.id = sid)]

PruneVs(vs, sid) ==
    [vs EXCEPT !.serviceGroups =
        LET kept == SelectSeq(vs.serviceGroups, LAMBDA g : GroupHasService(g, sid))
        IN  [j \in 1..Len(kept) |-> PruneGroup(kept[j], sid)]]

FilterDeepByService(tree, sid) ==
    LET kept == FilterVsByService(tree, sid)
    IN  [i \in 1..Len(kept) |-> PruneVs(kept[i], sid)]

ServiceFilterResponses(tree, sid) ==
    {tree, FilterVsByService(tree, sid), FilterDeepByService(tree, sid)}

\* getVirtualServers with an object filter on the virtual server's own id.
VsFilterResponses(tree, gid) ==
    {tree, SelectSeq(tree, LAMBDA vs : vs.id = gid)}

\* getBillingItem: the billing item of the load balancer, or nothing.
BillingItemOf(lbid) == [kind |-> "item", id |-> 70 + lbid]
NoBillingItem == [kind |-> "none", id |-> 0]
BillingResponses(lbid) == {BillingItemOf(lbid), NoBillingItem}

\* editObject replaces the virtual servers of the load balancer by the
\* submitted ones; entries submitted without an id are new and get one.
MaxOf(S) == IF S = {} THEN 0 ELSE CHOOSE m \in S : \A x \in S : x <= m

AssignIds(payload) ==
    LET vsBase  == MaxOf(VsIdsOf(payload))
        svcBase == MaxOf(ServiceIdsOf(payload))
        vsId(i) == IF payload[i].id = NoId THEN vsBase + i ELSE payload[i].id
    IN  [i \in 1..Len(payload) |->
            [payload[i] EXCEPT
                !.id = vsId(i),
                !.serviceGroups =
                    [j \in 1..Len(payload[i].serviceGroups) |->
                        LET g == payload[i].serviceGroups[j]
                        IN  [g EXCEPT
                               !.id = IF g.id = NoId THEN 10 * vsId(i) + j ELSE g.id,
                               !.services =
                                   [k \in 1..Len(g.services) |->
                                       [g.services[k] EXCEPT
                                           !.id = IF @ = NoId
                                                  THEN svcBase + 100 * i + 10 * j + k
                                                  ELSE @]]]]]]

\* --------------------------------------------------- values of the manager
NoLoc == [tag |-> "none", id |-> 0]
FIRST_AVAILABLE == [tag |-> "FIRST_AVAILABLE", id |-> 0]
LocId(id) == [tag |-> "id", id |-> id]

Call(method, id, filter, payload, location, price) ==
    [method |-> method, id |-> id, filter |-> filter, payload |-> payload,
     location |-> location, price |-> price]

Pending == [status |-> "pending", error |-> "", pkgs |-> <<>>, loc |-> NoLoc]
Returned == [status |-> "ok", error |-> "", pkgs |-> <<>>, loc |-> NoLoc]
Raised(e) == [status |-> "raised", error |-> e, pkgs |-> <<>>, loc |-> NoLoc]

NoFetch == [vs |-> <<>>, pkgs |-> <<>>, dcs |-> <<>>]

\* --------------------------------------------------------- get_lb_pkgs
\* A description is a sequence of words.
PkgPool ==
    { [id |-> 1, description |-> <<"Global", "Load", "Balancer">>],
      [id |-> 2, description |-> <<"Load", "Balancer">>],
      [id |-> 3, description |-> <<"Local", "Load", "Balancer">>] }
CatalogLists == SeqsUpTo(PkgPool, MaxPkgs)

\* The attributes a Python string has, as far as the manager uses them.
StrAttrs == {"startswith", "endswith", "find"}

startswith(description, word) == Len(description) > 0 /\ description[1] = word
ContainsWord(description, word) ==
    \E i \in 1..Len(description) : description[i] = word

\* list.remove(x): drop the first element equal to x.
ListRemove(list, x) ==
    LET first == CHOOSE i \in 1..Len(list) :
                    list[i] = x /\ \A j \in 1..(i - 1) : list[j] # x
    IN  [i \in 1..(Len(list) - 1) |-> IF i < first THEN list[i] ELSE list[i + 1]]

\* "for package in packages" keeps an index into the live list and stops
\* when the index reaches the current length; the body looks up the
\* attribute startsWith on the description.
RECURSIVE PkgLoop(_, _)
PkgLoop(packages, i) ==
    IF i > Len(packages) THEN [Returned EXCEPT !.pkgs = packages]
    ELSE IF "startsWith" \notin StrAttrs THEN Raised("AttributeError")
    ELSE IF startswith(packages[i].description, "Global")
         THEN PkgLoop(ListRemove(packages, packages[i]), i + 1)
         ELSE PkgLoop(packages, i + 1)

get_lb_pkgs(packages) == PkgLoop(packages, 1)

\* --------------------------------------------------------- get_location
DCPool ==
    { [id |-> 1, name |-> "dal05"], [id |-> 2, name |-> "ams01"],
      [id |-> 3, name |-> "dal05"] }
DCLists == SeqsUpTo(DCPool, MaxDCs)
DCNames == {"dal05", "ams01", "sjc01"}

RECURSIVE LocLoop(_, _, _)
LocLoop(dcenters, datacenter, i) ==
    IF i > Len(dcenters) THEN FIRST_AVAILABLE
    ELSE IF dcenters[i].name = datacenter THEN LocId(dcenters[i].id)
    ELSE LocLoop(dcenters, datacenter, i + 1)

\* Variant: the loop does not stop at the first match, the last one wins.
get_location_last_match(dcenters, datacenter) ==
    LET hits == {i \in 1..Len(dcenters) : dcenters[i].name = datacenter}
    IN  IF hits = {} THEN FIRST_AVAILABLE
        ELSE LocId(dcenters[CHOOSE i \in hits : \A j \in hits : j <= i].id)

get_location(dcenters, datacenter) == LocLoop(dcenters, datacenter, 1)

\* --------------------------------------------------------- add_local_lb
\* The order carries the resolved location and the price item.
add_local_lb(dcenters, price_item_id, datacenter) ==
    <<Call("getDataCenters", 0, 0, <<>>, NoLoc, 0),
      Call("placeOrder", 0, 0, <<>>, get_location(dcenters, datacenter),
           price_item_id)>>

\* ------------------------------------------------------------ cancel_lb
\* Variant: cancels by the load balancer's id instead of the billing item's.
cancel_lb_by_loadbal_id(loadbal_id, lb_billing) ==
    IF lb_billing.kind = "none"
    THEN [calls |-> <<>>, ret |-> Raised("TypeError")]
    ELSE [calls |-> <<Call("cancelService", loadbal_id, 0, <<>>, NoLoc, 0)>>,
          ret |-> Returned]

\* Variant: reads the id leniently and passes a missing one on to the remote.
cancel_lb_lenient(loadbal_id, lb_billing) ==
    [calls |-> <<Call("cancelService", lb_billing.id, 0, <<>>, NoLoc, 0)>>,
     ret |-> Returned]

\* After the lookup: subscript the billing item, then cancel by its id.
\* Subscripting a missing billing item raises before the second call.
cancel_lb(loadbal_id, lb_billing) ==
    IF lb_billing.kind = "none"
    THEN [calls |-> <<>>, ret |-> Raised("TypeError")]
    ELSE [calls |-> <<Call("cancelService", lb_billing.id, 0, <<>>, NoLoc, 0)>>,
          ret |-> Returned]

\* --------------------------------------------------------- edit_service
\* Variant: the port is written without looking at its sentinel.
EditMatchingService_port_always(service, ip_address_id, port, enabled, hc_type, weight) ==
    LET s1 == IF enabled # -1 THEN [service EXCEPT !.enabled = enabled] ELSE service
        s2 == [s1 EXCEPT !.port = port]
        s3 == IF weight # -1
              THEN [s2 EXCEPT !.groupReferences[1].weight = weight] ELSE s2
        s4 == IF hc_type # -1
              THEN [s3 EXCEPT !.healthChecks[1].healthCheckTypeId = hc_type] ELSE s3
    IN  IF ip_address_id # 0 THEN [s4 EXCEPT !.ipAddressId = ip_address_id] ELSE s4

\* The body of "if service['id'] == service_id": each field is written only
\* when its argument differs from its sentinel.
EditMatchingService(service, ip_address_id, port, enabled, hc_type, weight) ==
    LET s1 == IF enabled # -1 THEN [service EXCEPT !.enabled = enabled] ELSE service
        s2 == IF port # -1 THEN [s1 EXCEPT !.port = port] ELSE s1
        s3 == IF weight # -1
              THEN [s2 EXCEPT !.groupReferences[1].weight = weight] ELSE s2
        s4 == IF hc_type # -1
              THEN [s3 EXCEPT !.healthChecks[1].healthCheckTypeId = hc_type] ELSE s3
    IN  IF ip_address_id # 0 THEN [s4 EXCEPT !.ipAddressId = ip_address_id] ELSE s4

\* Indexing [0] into an empty groupReferences or healthChecks list raises.
EditMatchingRaises(service, hc_type, weight) ==
    \/ weight # -1 /\ Len(service.groupReferences) = 0
    \/ hc_type # -1 /\ Len(service.healthChecks) = 0

\* The loop runs over virtual_servers[0]['serviceGroups'][0]['services'] only.
edit_service(virtual_servers, service_id, ip_address_id, port, enabled, hc_type, weight) ==
    IF Len(virtual_servers) = 0 \/ Len(virtual_servers[1].serviceGroups) = 0
    THEN [error |-> "IndexError", tree |-> virtual_servers]
    ELSE LET services == virtual_servers[1].serviceGroups[1].services
         IN  IF \E k \in 1..Len(services) :
                    /\ services[k].id = service_id
                    /\ EditMatchingRaises(services[k], hc_type, weight)
             THEN [error |-> "IndexError", tree |-> virtual_servers]
             ELSE [error |-> "",
                   tree |-> [virtual_servers EXCEPT
                       ![1].serviceGroups[1].services =
                           [k \in 1..Len(services) |->
                               IF services[k].id = service_id
                               THEN EditMatchingService(services[k], ip_address_id,
                                        port, enabled, hc_type, weight)
                               ELSE services[k]]]]

\* ---------------------------------------------------------- add_service
add_service(virtual_servers, service_group_id, ip_address_id, port, enabled, hc_type, weight) ==
    IF \E i \in 1..Len(virtual_servers) :
            /\ virtual_servers[i].id = service_group_id
            /\ Len(virtual_servers[i].serviceGroups) = 0
    THEN [error |-> "IndexError", tree |-> virtual_servers]
    ELSE [error |-> "",
          tree |-> [i \in 1..Len(virtual_servers) |->
              IF virtual_servers[i].id = service_group_id
              THEN [virtual_servers[i] EXCEPT
                       !.serviceGroups[1].services =
                           Append(@, MkService(NoId, enabled, port, ip_address_id,
                                               weight, hc_type))]
              ELSE virtual_servers[i]]]

\* ---------------------------------------------------- add_service_group
\* Variant: routing type and method change places in the template.
add_service_group_swapped(virtual_servers, allocation, port, routing_type, routing_method) ==
    [error |-> "",
     tree |-> Append(virtual_servers,
                 MkVS(NoId, port, allocation,
                      <<MkGroup(NoId, routing_method, routing_type, <<>>)>>))]

add_service_group(virtual_servers, allocation, port, routing_type, routing_method) ==
    [error |-> "",
     tree |-> Append(virtual_servers,
                 MkVS(NoId, port, allocation,
                      <<MkGroup(NoId, routing_type, routing_method, <<>>)>>))]

\* --------------------------------------------------- edit_service_group
EditMatchingGroup(virtual_server, allocation, port, routing_type, routing_method) ==
    LET v1 == IF allocation # -1
              THEN [virtual_server EXCEPT !.allocation = allocation]
              ELSE virtual_server
        v2 == IF port # 0 THEN [v1 EXCEPT !.port = port] ELSE v1
        v3 == IF routing_type # 0
              THEN [v2 EXCEPT !.serviceGroups[1].routingTypeId = routing_type]
              ELSE v2
    IN  IF routing_method # 0
        THEN [v3 EXCEPT !.serviceGroups[1].routingMethodId = routing_method]
        ELSE v3

edit_service_group(virtual_servers, group_id, allocation, port, routing_type, routing_method) ==
    IF \E i \in 1..Len(virtual_servers) :
            /\ virtual_servers[i].id = group_id
            /\ Len(virtual_servers[i].serviceGroups) = 0
    THEN [error |-> "IndexError", tree |-> virtual_servers]
    ELSE [error |-> "",
          tree |-> [i \in 1..Len(virtual_servers) |->
              IF virtual_servers[i].id = group_id
              THEN EditMatchingGroup(virtual_servers[i], allocation, port,
                                     routing_type, routing_method)
              ELSE virtual_servers[i]]]

\* -------------------------------------------------- reset_service_group
\* Variant: takes the virtual server's id instead of the nested group's.
reset_service_group_outer_id(virtual_servers) ==
    IF Len(virtual_servers) = 0 \/ Len(virtual_servers[1].serviceGroups) = 0
    THEN [error |-> "IndexError", id |-> 0]
    ELSE [error |-> "", id |-> virtual_servers[1].id]

\* actual_id = virtual_servers[0]['serviceGroups'][0]['id']
reset_service_group(virtual_servers) ==
    IF Len(virtual_servers) = 0 \/ Len(virtual_servers[1].serviceGroups) = 0
    THEN [error |-> "IndexError", id |-> 0]
    ELSE [error |-> "", id |-> virtual_servers[1].serviceGroups[1].id]

\* ------------------------------------------------------ caller's inputs
Args(ip, port, enabled, hc, weight, allocation, rtype, rmethod) ==
    [ip_address_id |-> ip, port |-> port, enabled |-> enabled, hc_type |-> hc,
     weight |-> weight, allocation |-> allocation, routing_type |-> rtype,
     routing_method |-> rmethod]

NoArgs == Args(0, 0, 0, 0, 0, 0, 0, 0)

Op(name, loadbal_id, target_id, args, datacenter, price_item_id) ==
    [name |-> name, loadbal_id |-> loadbal_id, target_id |-> target_id,
     args |-> args, datacenter |-> datacenter, price_item_id |-> price_item_id]

NoOp == Op("none", 0, 0, NoArgs, "", 0)

\* edit_service: every optional argument at its sentinel, one concrete, all concrete.
EditServiceSentinels == Args(0, -1, -1, -1, -1, 0, 0, 0)
EditServiceArgs ==
    { EditServiceSentinels,
      [EditServiceSentinels EXCEPT !.port = 8080],
      [EditServiceSentinels EXCEPT !.enabled = 0],
      [EditServiceSentinels EXCEPT !.hc_type = 22],
      [EditServiceSentinels EXCEPT !.weight = 3],
      [EditServiceSentinels EXCEPT !.ip_address_id = 6],
      Args(6, 8080, 0, 22, 3, 0, 0, 0) }

AddServiceArgs == { Args(6, 80, 1, 21, 1, 0, 0, 0), Args(7, 8080, 0, 22, 3, 0, 0, 0) }

AddServiceGroupArgs ==
    { Args(0, 80, 0, 0, 0, 100, 2, 10), Args(0, 8080, 0, 0, 0, 40, 3, 11) }

EditServiceGroupSentinels == Args(0, 0, 0, 0, 0, -1, 0, 0)
EditServiceGroupArgs ==
    { EditServiceGroupSentinels,
      [EditServiceGroupSentinels EXCEPT !.allocation = 40],
      [EditServiceGroupSentinels EXCEPT !.port = 8080],
      [EditServiceGroupSentinels EXCEPT !.routing_type = 3, !.routing_method = 11] }

PriceItems == {1234}

\* ------------------------------------------------------------ the state
Init ==
    /\ lb \in InitTrees
    /\ pc = [c \in Clients |-> IF c = 1 THEN "idle" ELSE "off"]
    /\ op = [c \in Clients |-> NoOp]
    /\ fetched = [c \in Clients |-> NoFetch]
    /\ billing = [c \in Clients |-> NoBillingItem]
    /\ calls = [c \in Clients |-> <<>>]
    /\ ret = [c \in Clients |-> Pending]
    /\ hist = <<>>

InitRace ==
    /\ lb \in RaceTrees
    /\ pc = [c \in Clients |-> "idle"]
    /\ op = [c \in Clients |-> NoOp]
    /\ fetched = [c \in Clients |-> NoFetch]
    /\ billing = [c \in Clients |-> NoBillingItem]
    /\ calls = [c \in Clients |-> <<>>]
    /\ ret = [c \in Clients |-> Pending]
    /\ hist = <<>>

\* ------------------------------------------------- single-call methods
GetLbPkgs(c) ==
    /\ pc[c] = "idle"
    /\ \E packages \in CatalogLists :
        /\ op' = [op EXCEPT ![c] = Op("get_lb_pkgs", 0, 0, NoArgs, "", 0)]
        /\ fetched' = [fetched EXCEPT ![c] = [NoFetch EXCEPT !.pkgs = packages]]
        /\ calls' = [calls EXCEPT ![c] = <<Call("getItems", 0, 0, <<>>, NoLoc, 0)>>]
        /\ ret' = [ret EXCEPT ![c] = get_lb_pkgs(packages)]
    /\ pc' = [pc EXCEPT ![c] = "done"]
    /\ hist' = Append(hist, <<c, "getItems">>)
    /\ UNCHANGED <<lb, billing>>

GetLocation(c) ==
    /\ pc[c] = "idle"
    /\ \E dcenters \in DCLists, datacenter \in DCNames :
        /\ op' = [op EXCEPT ![c] = Op("get_location", 0, 0, NoArgs, datacenter, 0)]
        /\ fetched' = [fetched EXCEPT ![c] = [NoFetch EXCEPT !.dcs = dcenters]]
        /\ calls' = [calls EXCEPT ![c] =
                        <<Call("getDataCenters", 0, 0, <<>>, NoLoc, 0)>>]
        /\ ret' = [ret EXCEPT ![c] =
                        [Returned EXCEPT !.loc = get_location(dcenters, datacenter)]]
    /\ pc' = [pc EXCEPT ![c] = "done"]
    /\ hist' = Append(hist, <<c, "getDataCenters">>)
    /\ UNCHANGED <<lb, billing>>

AddLocalLb(c) ==
    /\ pc[c] = "idle"
    /\ \E dcenters \in DCLists, datacenter \in DCNames, price \in PriceItems :
        /\ op' = [op EXCEPT ![c] =
                        Op("add_local_lb", 0, 0, NoArgs, datacenter, price)]
        /\ fetched' = [fetched EXCEPT ![c] = [NoFetch EXCEPT !.dcs = dcenters]]
        /\ calls' = [calls EXCEPT ![c] = add_local_lb(dcenters, price, datacenter)]
        /\ ret' = [ret EXCEPT ![c] = Returned]
    /\ pc' = [pc EXCEPT ![c] = "done"]
    /\ hist' = hist \o <<<<c, "getDataCenters">>, <<c, "placeOrder">>>>
    /\ UNCHANGED <<lb, billing>>

\* ------------------------------------------------------------ cancel_lb
CancelLbLookup(c) ==
    /\ pc[c] = "idle"
    /\ \E loadbal_id \in LbIds :
        /\ op' = [op EXCEPT ![c] = Op("cancel_lb", loadbal_id, 0, NoArgs, "", 0)]
        /\ calls' = [calls EXCEPT ![c] =
                        <<Call("getBillingItem", loadbal_id, 0, <<>>, NoLoc, 0)>>]
        /\ \E lb_billing \in BillingResponses(loadbal_id) :
                billing' = [billing EXCEPT ![c] = lb_billing]
    /\ pc' = [pc EXCEPT ![c] = "fetched"]
    /\ fetched' = [fetched EXCEPT ![c] = NoFetch]
    /\ ret' = [ret EXCEPT ![c] = Pending]
    /\ hist' = Append(hist, <<c, "getBillingItem">>)
    /\ UNCHANGED lb

\* The remote billing step may itself refuse the cancellation.
CancelLbCancel(c) ==
    /\ pc[c] = "fetched"
    /\ op[c].name = "cancel_lb"
    /\ LET r == cancel_lb(op[c].loadbal_id, billing[c])
       IN  /\ calls' = [calls EXCEPT ![c] = @ \o r.calls]
           /\ hist' = IF r.calls = <<>> THEN hist
                      ELSE Append(hist, <<c, "cancelService">>)
           /\ \E fault \in BOOLEAN :
                ret' = [ret EXCEPT ![c] =
                          IF r.calls # <<>> /\ fault THEN Raised("RemoteFault")
                          ELSE r.ret]
    /\ pc' = [pc EXCEPT ![c] = "done"]
    /\ UNCHANGED <<lb, op, fetched, billing>>

\* --------------------------------------- fetch, mutate, submit methods
\* The first remote call of a method: the client keeps what it returned.
Fetch(c, o, method, filter, response) ==
    /\ pc[c] = "idle"
    /\ op' = [op EXCEPT ![c] = o]
    /\ fetched' = [fetched EXCEPT ![c] = [NoFetch EXCEPT !.vs = response]]
    /\ calls' = [calls EXCEPT ![c] =
                    <<Call(method, o.loadbal_id, filter, <<>>, NoLoc, 0)>>]
    /\ ret' = [ret EXCEPT ![c] = Pending]
    /\ pc' = [pc EXCEPT ![c] = "fetched"]
    /\ hist' = Append(hist, <<c, method>>)
    /\ UNCHANGED <<lb, billing>>

\* Variant: the submit compares the remote with the fetched snapshot first.
Submit_if_unchanged(c, r) ==
    /\ pc[c] = "fetched"
    /\ IF r.error # "" \/ lb # fetched[c].vs
       THEN /\ ret' = [ret EXCEPT ![c] =
                         Raised(IF r.error # "" THEN r.error ELSE "Conflict")]
            /\ UNCHANGED <<lb, calls, hist>>
       ELSE /\ calls' = [calls EXCEPT ![c] =
                    Append(@, Call("editObject", op[c].loadbal_id, 0, r.tree,
                                   NoLoc, 0))]
            /\ lb' = AssignIds(r.tree)
            /\ ret' = [ret EXCEPT ![c] = Returned]
            /\ hist' = Append(hist, <<c, "editObject">>)
    /\ pc' = [pc EXCEPT ![c] = "done"]
    /\ UNCHANGED <<op, fetched, billing>>

\* The rest of the method: r is what the local code computed from the
\* fetched value.  An exception ends the method before editObject.
Submit(c, r) ==
    /\ pc[c] = "fetched"
    /\ IF r.error # ""
       THEN /\ ret' = [ret EXCEPT ![c] = Raised(r.error)]
            /\ UNCHANGED <<lb, calls, hist>>
       ELSE /\ calls' = [calls EXCEPT ![c] =
                    Append(@, Call("editObject", op[c].loadbal_id, 0, r.tree,
                                   NoLoc, 0))]
            /\ lb' = AssignIds(r.tree)
            /\ ret' = [ret EXCEPT ![c] = Returned]
            /\ hist' = Append(hist, <<c, "editObject">>)
    /\ pc' = [pc EXCEPT ![c] = "done"]
    /\ UNCHANGED <<op, fetched, billing>>

EditServiceFetch(c) ==
    /\ pc[c] = "idle"
    /\ \E service_id \in ServiceIdsOf(lb) \cup {AbsentId}, a \in EditServiceArgs :
           \E response \in ServiceFilterResponses(lb, service_id) :
               Fetch(c, Op("edit_service", TheLb, service_id, a, "", 0),
                     "getVirtualServers", service_id, response)

EditServiceSubmit(c) ==
    /\ op[c].name = "edit_service"
    /\ Submit(c, edit_service(fetched[c].vs, op[c].target_id,
                              op[c].args.ip_address_id, op[c].args.port,
                              op[c].args.enabled, op[c].args.hc_type,
                              op[c].args.weight))

AddServiceFetch(c) ==
    /\ pc[c] = "idle"
    /\ \E service_group_id \in VsIdsOf(lb) \cup {AbsentId}, a \in AddServiceArgs :
           Fetch(c, Op("add_service", TheLb, service_group_id, a, "", 0),
                 "getObject", 0, lb)

AddServiceSubmit(c) ==
    /\ op[c].name = "add_service"
    /\ Submit(c, add_service(fetched[c].vs, op[c].target_id,
                             op[c].args.ip_address_id, op[c].args.port,
                             op[c].args.enabled, op[c].args.hc_type,
                             op[c].args.weight))

AddServiceGroupFetch(c) ==
    /\ pc[c] = "idle"
    /\ \E a \in AddServiceGroupArgs :
           Fetch(c, Op("add_service_group", TheLb, 0, a, "", 0), "getObject", 0, lb)

AddServiceGroupSubmit(c) ==
    /\ op[c].name = "add_service_group"
    /\ Submit(c, add_service_group(fetched[c].vs, op[c].args.allocation,
                                   op[c].args.port, op[c].args.routing_type,
                                   op[c].args.routing_method))

EditServiceGroupFetch(c) ==
    /\ pc[c] = "idle"
    /\ \E group_id \in VsIdsOf(lb) \cup {AbsentId}, a \in EditServiceGroupArgs :
           Fetch(c, Op("edit_service_group", TheLb, group_id, a, "", 0),
                 "getObject", 0, lb)

EditServiceGroupSubmit(c) ==
    /\ op[c].name = "edit_service_group"
    /\ Submit(c, edit_service_group(fetched[c].vs, op[c].target_id,
                                    op[c].args.allocation, op[c].args.port,
                                    op[c].args.routing_type,
                                    op[c].args.routing_method))

\* -------------------------------------------------- reset_service_group
ResetServiceGroupFetch(c) ==
    /\ pc[c] = "idle"
    /\ \E group_id \in VsIdsOf(lb) \cup {AbsentId} :
           \E response \in VsFilterResponses(lb, group_id) :
               Fetch(c, Op("reset_service_group", TheLb, group_id, NoArgs, "", 0),
                     "getVirtualServers", group_id, response)

ResetServiceGroupKick(c) ==
    /\ pc[c] = "fetched"
    /\ op[c].name = "reset_service_group"
    /\ LET r == reset_service_group(fetched[c].vs)
       IN  IF r.error # ""
           THEN /\ ret' = [ret EXCEPT ![c] = Raised(r.error)]
                /\ UNCHANGED <<calls, hist>>
           ELSE /\ calls' = [calls EXCEPT ![c] =
                        Append(@, Call("kickAllConnections", r.id, 0, <<>>,
                                       NoLoc, 0))]
                /\ ret' = [ret EXCEPT ![c] = Returned]
                /\ hist' = Append(hist, <<c, "kickAllConnections">>)
    /\ pc' = [pc EXCEPT ![c] = "done"]
    /\ UNCHANGED <<lb, op, fetched, billing>>

\* ------------------------------------------------------ specifications
Next ==
    \E c \in Clients :
        \/ GetLbPkgs(c)
        \/ GetLocation(c)
        \/ AddLocalLb(c)
        \/ CancelLbLookup(c)
        \/ CancelLbCancel(c)
        \/ EditServiceFetch(c)
        \/ EditServiceSubmit(c)
        \/ AddServiceFetch(c)
        \/ AddServiceSubmit(c)
        \/ AddServiceGroupFetch(c)
        \/ AddServiceGroupSubmit(c)
        \/ EditServiceGroupFetch(c)
        \/ EditServiceGroupSubmit(c)
        \/ ResetServiceGroupFetch(c)
        \/ ResetServiceGroupKick(c)

Spec == Init /\ [][Next]_vars

\* Two clients editing the same load balancer.
NextRace ==
    \E c \in Clients :
        \/ AddServiceFetch(c)
        \/ AddServiceSubmit(c)
        \/ AddServiceGroupFetch(c)
        \/ AddServiceGroupSubmit(c)
        \/ EditServiceGroupFetch(c)
        \/ EditServiceGroupSubmit(c)

SpecRace == InitRace /\ [][NextRace]_vars

\* --------------------------------------------------------------- claims
Done(c, name) == pc[c] = "done" /\ op[c].name = name

IsGlobal(package) == ContainsWord(package.description, "Global")

\* C1: get_lb_pkgs returns normally for every catalog list, no returned
\* entry has a description with the 'Global' marker, and the non-Global
\* entries of the remote list are all returned in their original order.
C1_GlobalEntriesFiltered ==
    \A c \in Clients :
        Done(c, "get_lb_pkgs") =>
            /\ ret[c].status = "ok"
            /\ \A i \in 1..Len(ret[c].pkgs) : ~IsGlobal(ret[c].pkgs[i])
            /\ ret[c].pkgs = SelectSeq(fetched[c].pkgs, LAMBDA p : ~IsGlobal(p))

C3_SentinelEditSubmitsFetched ==
    \A c \in Clients :
        (op[c].name = "edit_service" /\ op[c].args = EditServiceSentinels) =>
            /\ \A i \in 1..Len(calls[c]) :
                  calls[c][i].method = "editObject" =>
                      calls[c][i].payload = fetched[c].vs
            /\ (pc[c] = "done" /\ ret[c].status = "ok") =>
                  /\ Len(calls[c]) = 2
                  /\ calls[c][2].method = "editObject"

C3_SentinelEditOfFoundService ==
    \E c \in Clients :
        /\ Done(c, "edit_service")
        /\ op[c].args = EditServiceSentinels
        /\ Len(calls[c]) = 2
        /\ calls[c][2].method = "editObject"
        /\ GroupHasService(fetched[c].vs[1].serviceGroups[1], op[c].target_id)
        /\ Len(fetched[c].vs[1].serviceGroups[1].services) > 1

\* The fetched tree with the port of every service of the given id replaced.
WithPort(tree, sid, port) ==
    [i \in 1..Len(tree) |->
        [tree[i] EXCEPT !.serviceGroups =
            [j \in 1..Len(tree[i].serviceGroups) |->
                [tree[i].serviceGroups[j] EXCEPT !.services =
                    [k \in 1..Len(tree[i].serviceGroups[j].services) |->
                        LET sv == tree[i].serviceGroups[j].services[k]
                        IN  IF sv.id = sid THEN [sv EXCEPT !.port = port]
                            ELSE sv]]]]]

PortOnly(a) == a = [EditServiceSentinels EXCEPT !.port = a.port] /\ a.port # -1

\* C4: edit_service with a concrete port and every other optional argument
\* at its sentinel submits the fetched tree with the port of the service
\* whose id is service_id set to the supplied value and nothing else changed.
C4_PortOfMatchingServiceEdited ==
    \A c \in Clients :
        ( /\ Done(c, "edit_service")
          /\ PortOnly(op[c].args)
          /\ TreeHasService(fetched[c].vs, op[c].target_id) ) =>
            /\ Len(calls[c]) = 2
            /\ calls[c][2].method = "editObject"
            /\ calls[c][2].payload =
                  WithPort(fetched[c].vs, op[c].target_id, op[c].args.port)

\* C5: add_service_group on a load balancer fetched with N virtual servers
\* submits N+1 entries through editObject: the fetched ones unchanged and in
\* order, then one with the supplied port and allocation and exactly one
\* service group carrying the supplied routing type and routing method.
C5_AddServiceGroupAppendsOne ==
    \A c \in Clients :
        Done(c, "add_service_group") =>
            /\ Len(calls[c]) = 2
            /\ calls[c][1].method = "getObject"
            /\ calls[c][2].method = "editObject"
            /\ LET N == Len(fetched[c].vs)
                   submitted == calls[c][2].payload
               IN  /\ Len(submitted) = N + 1
                   /\ SubSeq(submitted, 1, N) = fetched[c].vs
                   /\ submitted[N + 1].port = op[c].args.port
                   /\ submitted[N + 1].allocation = op[c].args.allocation
                   /\ Len(submitted[N + 1].serviceGroups) = 1
                   /\ submitted[N + 1].serviceGroups[1].routingTypeId =
                          op[c].args.routing_type
                   /\ submitted[N + 1].serviceGroups[1].routingMethodId =
                          op[c].args.routing_method

C5_GroupAddedToNonEmpty ==
    \E c \in Clients :
        /\ Done(c, "add_service_group")
        /\ Len(fetched[c].vs) >= 1
        /\ Len(calls[c]) = 2
        /\ Len(calls[c][2].payload) = Len(fetched[c].vs) + 1
        /\ op[c].args.routing_type # op[c].args.routing_method

\* C6: reset_service_group first calls getVirtualServers on loadbal_id with
\* a filter on the virtual-server id group_id; kickAllConnections comes only
\* afterwards and its id is the id of the first service group of the first
\* returned virtual server, not the caller's group_id.
C6_KickUsesNestedGroupId ==
    \A c \in Clients :
        op[c].name = "reset_service_group" =>
            /\ Len(calls[c]) \in {1, 2}
            /\ calls[c][1].method = "getVirtualServers"
            /\ calls[c][1].id = op[c].loadbal_id
            /\ calls[c][1].filter = op[c].target_id
            /\ pc[c] = "fetched" => Len(calls[c]) = 1
            /\ Len(calls[c]) = 2 =>
                /\ calls[c][2].method = "kickAllConnections"
                /\ calls[c][2].id = fetched[c].vs[1].serviceGroups[1].id

C6_KickedWithDifferentId ==
    \E c \in Clients :
        /\ Done(c, "reset_service_group")
        /\ Len(calls[c]) = 2
        /\ fetched[c].vs[1].id = op[c].target_id
        /\ calls[c][2].id # op[c].target_id

\* The positions of the datacenters of the given name.
NamedAt(dcenters, name) == {i \in 1..Len(dcenters) : dcenters[i].name = name}

ExpectedLocation(dcenters, name) ==
    IF NamedAt(dcenters, name) = {} THEN FIRST_AVAILABLE
    ELSE LocId(dcenters[CHOOSE i \in NamedAt(dcenters, name) :
                            \A j \in NamedAt(dcenters, name) : i <= j].id)

\* C7: get_location returns the id of the first datacenter whose name is the
\* requested one, and 'FIRST_AVAILABLE' without raising when there is none;
\* add_local_lb places its order with that location, so an unknown
\* datacenter still orders, with location 'FIRST_AVAILABLE'.
C7_LocationOrFirstAvailable ==
    \A c \in Clients :
        /\ Done(c, "get_location") =>
              /\ ret[c].status = "ok"
              /\ ret[c].loc = ExpectedLocation(fetched[c].dcs, op[c].datacenter)
        /\ Done(c, "add_local_lb") =>
              /\ ret[c].status = "ok"
              /\ Len(calls[c]) = 2
              /\ calls[c][2].method = "placeOrder"
              /\ calls[c][2].price = op[c].price_item_id
              /\ calls[c][2].location =
                    ExpectedLocation(fetched[c].dcs, op[c].datacenter)
              /\ NamedAt(fetched[c].dcs, op[c].datacenter) = {} =>
                    calls[c][2].location = FIRST_AVAILABLE

C7_FirstOfTwoMatches ==
    \E c \in Clients :
        /\ Done(c, "get_location")
        /\ Cardinality(NamedAt(fetched[c].dcs, op[c].datacenter)) = 2
        /\ fetched[c].dcs[1].id # fetched[c].dcs[2].id
        /\ ret[c].loc = LocId(fetched[c].dcs[1].id)

\* C8: edit_service with a service_id that is nowhere in the fetched tree
\* (the fetch may have returned no virtual server) signals no error and
\* issues exactly one editObject whose payload is the fetched list.
C8_NotFoundSubmitsUnmodified ==
    \A c \in Clients :
        ( /\ Done(c, "edit_service")
          /\ ~TreeHasService(fetched[c].vs, op[c].target_id) ) =>
            /\ ret[c].status = "ok"
            /\ Len(calls[c]) = 2
            /\ calls[c][2].method = "editObject"
            /\ calls[c][2].payload = fetched[c].vs

\* What the local code of the client's method computes from its own snapshot.
LocalResult(c) ==
    IF op[c].name = "add_service"
    THEN add_service(fetched[c].vs, op[c].target_id, op[c].args.ip_address_id,
                     op[c].args.port, op[c].args.enabled, op[c].args.hc_type,
                     op[c].args.weight)
    ELSE IF op[c].name = "add_service_group"
    THEN add_service_group(fetched[c].vs, op[c].args.allocation, op[c].args.port,
                           op[c].args.routing_type, op[c].args.routing_method)
    ELSE edit_service_group(fetched[c].vs, op[c].target_id, op[c].args.allocation,
                            op[c].args.port, op[c].args.routing_type,
                            op[c].args.routing_method)

LastSubmitter ==
    LET subs == {i \in 1..Len(hist) : hist[i][2] = "editObject"}
    IN  IF subs = {} THEN 0
        ELSE hist[CHOOSE i \in subs : \A j \in subs : j <= i][1]

\* C9: two clients running add_service, add_service_group or
\* edit_service_group on one load balancer race as last writer wins: a
\* client that has fetched can always go on, whether it submits or raises
\* depends on its own snapshot alone and never on what the other client did
\* in between, and after each editObject the remote holds exactly the
\* snapshot of the client that submitted last.
C9_LastWriterWins ==
    /\ \A c \in Clients :
        /\ pc[c] = "fetched" =>
              ENABLED (\/ AddServiceSubmit(c)
                       \/ AddServiceGroupSubmit(c)
                       \/ EditServiceGroupSubmit(c))
        /\ pc[c] = "done" =>
              IF LocalResult(c).error = ""
              THEN /\ ret[c].status = "ok"
                   /\ Len(calls[c]) = 2
                   /\ calls[c][2].method = "editObject"
                   /\ calls[c][2].payload = LocalResult(c).tree
              ELSE /\ ret[c] = Raised(LocalResult(c).error)
                   /\ Len(calls[c]) = 1
    /\ LastSubmitter # 0 => lb = AssignIds(calls[LastSubmitter][2].payload)

\* Both clients fetched before either submitted; the first added a service
\* group, the second edited a group of its older snapshot and submitted
\* last: the added virtual server is gone from the remote.
C9_LostUpdate ==
    \E c1, c2 \in Clients :
        /\ c1 # c2
        /\ Done(c1, "add_service_group") /\ ret[c1].status = "ok"
        /\ Done(c2, "edit_service_group") /\ ret[c2].status = "ok"
        /\ hist = << <<c1, "getObject">>, <<c2, "getObject">>,
                     <<c1, "editObject">>, <<c2, "editObject">> >>
        /\ calls[c2][2].payload # fetched[c2].vs
        /\ Len(calls[c1][2].payload) = Len(fetched[c1].vs) + 1
        /\ Len(lb) = Len(fetched[c1].vs)
        /\ lb = AssignIds(calls[c2][2].payload)

LocalErrors == {"TypeError", "IndexError", "AttributeError"}

====
